---- MODULE Spec2Model ----
(***************************************************************************)
(* Model of tri_driver_common/utility.hpp.                                 *)
(*                                                                         *)
(* The header is a set of stateless free functions.  A behaviour of the    *)
(* model is one invocation: the initial state holds the arguments the      *)
(* caller passes (args), the build configuration (NDEBUG) and the two      *)
(* empty console streams; the single step applies the function named by    *)
(* args.op and records what it returned or raised (ret) and what it wrote  *)
(* to std::cout / std::cerr.                                               *)
(*                                                                         *)
(* Fixed-width unsigned integers are modelled as bit vectors: a value of   *)
(* width w is the set of the positions (0 = least significant) of its 1    *)
(* bits, a subset of 0..w-1.  This keeps all 64 bits of a uint64_t.        *)
(***************************************************************************)
EXTENDS Integers, Sequences, FiniteSets

VARIABLES pc, args, ret, cout, cerr, NDEBUG

vars == <<pc, args, ret, cout, cerr, NDEBUG>>

(***************************************************************************)
(* Bounds of the explored input space.                                     *)
(***************************************************************************)
MaxVal == 2
MaxAddr == 9
MaxAlign == 4
MaxLen == 3
MaxElem == 2
MaxKey == 3
MaxMapVal == 2

ClampVals == (0 - MaxVal)..MaxVal
Addrs == 1..MaxAddr
Aligns == 0..MaxAlign
Elems == 1..MaxElem
Keys == 1..MaxKey
MapVals == 1..MaxMapVal

SeqsUpTo(S, n) == UNION {[1..k -> S] : k \in 0..n}

(***************************************************************************)
(* Outcomes of a call.                                                     *)
(***************************************************************************)
NoRet == [kind |-> "none"]
Value(v) == [kind |-> "value", val |-> v]
Void == [kind |-> "void"]
Throw(type, what) == [kind |-> "throw", type |-> type, what |-> what]
Abort(what) == [kind |-> "abort", what |-> what]
Crash == [kind |-> "crash"]

(***************************************************************************)
(* Numeric Bounds                                                          *)
(***************************************************************************)
StdMax(a, b) == IF a < b THEN b ELSE a
StdMin(a, b) == IF b < a THEN b ELSE a

ClampValueSwapped(val, min, max) ==
  IF max >= min
    THEN Value(StdMax(max, StdMin(min, val)))
    ELSE Throw("std::invalid_argument", "min > max")

ClampValue(val, min, max) ==
  IF max >= min
    THEN Value(StdMin(max, StdMax(min, val)))
    ELSE Throw("std::invalid_argument", "min > max")

ClampMsg(val, dir, bound) == <<"Clamping ", val, dir, bound, "\n">>

ClampValueAndWarnSilentMax(val, min, max) ==
  IF max >= min
    THEN IF val < min
           THEN [ret |-> Value(min),
                 cerr |-> <<ClampMsg(val, " to min ", min)>>]
           ELSE IF val > max
                  THEN [ret |-> Value(val), cerr |-> <<>>]
                  ELSE [ret |-> Value(val), cerr |-> <<>>]
    ELSE [ret |-> Throw("std::invalid_argument", "min > max"), cerr |-> <<>>]

ClampValueAndWarnLateCheck(val, min, max) ==
  IF val < min
    THEN [ret |-> IF max >= min THEN Value(min)
                  ELSE Throw("std::invalid_argument", "min > max"),
          cerr |-> <<ClampMsg(val, " to min ", min)>>]
    ELSE IF val > max
           THEN [ret |-> IF max >= min THEN Value(max)
                         ELSE Throw("std::invalid_argument", "min > max"),
                 cerr |-> <<ClampMsg(val, " to max ", max)>>]
           ELSE [ret |-> IF max >= min THEN Value(val)
                         ELSE Throw("std::invalid_argument", "min > max"),
                 cerr |-> <<>>]

ClampValueAndWarn(val, min, max) ==
  IF max >= min
    THEN IF val < min
           THEN [ret |-> Value(min),
                 cerr |-> <<ClampMsg(val, " to min ", min)>>]
           ELSE IF val > max
                  THEN [ret |-> Value(max),
                        cerr |-> <<ClampMsg(val, " to max ", max)>>]
                  ELSE [ret |-> Value(val), cerr |-> <<>>]
    ELSE [ret |-> Throw("std::invalid_argument", "min > max"), cerr |-> <<>>]

(***************************************************************************)
(* Alignment.  item_ptr_val is the address of the referenced item.  A      *)
(* desired_alignment of 0 makes the % of lines 85 and 114 undefined: the   *)
(* outcomes a build can produce are listed by the Undefined sets below.    *)
(***************************************************************************)
AlignMsg(item_ptr_val, text, desired_alignment) ==
  <<"Item @ ", item_ptr_val, text, desired_alignment, " bytes\n">>

CheckAlignmentQuietMiss(item_ptr_val, desired_alignment, verbose) ==
  IF (item_ptr_val % desired_alignment) = 0
    THEN [ret |-> Value(TRUE),
          cout |-> IF verbose
                     THEN <<AlignMsg(item_ptr_val, " aligned to ",
                                     desired_alignment)>>
                     ELSE <<>>]
    ELSE [ret |-> Value(FALSE), cout |-> <<>>]

CheckAlignment(item_ptr_val, desired_alignment, verbose) ==
  IF (item_ptr_val % desired_alignment) = 0
    THEN [ret |-> Value(TRUE),
          cout |-> IF verbose
                     THEN <<AlignMsg(item_ptr_val, " aligned to ",
                                     desired_alignment)>>
                     ELSE <<>>]
    ELSE [ret |-> Value(FALSE),
          cout |-> IF verbose
                     THEN <<AlignMsg(item_ptr_val, " NOT aligned to ",
                                     desired_alignment)>>
                     ELSE <<>>]

CheckAlignmentUndefined ==
  {[ret |-> Crash, cout |-> <<>>],
   [ret |-> Value(TRUE), cout |-> <<>>],
   [ret |-> Value(FALSE), cout |-> <<>>]}

RequireAlignment(item_ptr_val, desired_alignment) ==
  IF (item_ptr_val % desired_alignment) # 0
    THEN Throw("std::runtime_error",
               <<"Item @ ", item_ptr_val,
                 " not aligned at desired alignment of ",
                 desired_alignment, " bytes">>)
    ELSE Void

RequireAlignmentUndefined == {Crash, Void}

(***************************************************************************)
(* Bit Operations.  T is one of the four widths of the static_assert.      *)
(* Operands narrower than int are promoted to int before <<, ~, | and &,   *)
(* and the result is converted back to T on assignment or return.          *)
(***************************************************************************)
Widths == {8, 16, 32, 64}
IntWidth == 32
Uint32Width == 32

Bits(w) == 0..(w - 1)
Truncate(v, w) == v \cap Bits(w)
PromotedWidth(w) == IF w < IntWidth THEN IntWidth ELSE w
ShiftLeft(v, n, w) == {b + n : b \in v} \cap Bits(PromotedWidth(w))
BitNot(v, w) == Bits(PromotedWidth(w)) \ v
BitOr(a, b) == a \cup b
BitAnd(a, b) == a \cap b

SetBitNoComplement(w, current, bit_position, bit_value) ==
  LET one == {0}
      update_mask == Truncate(ShiftLeft(one, bit_position, w), w)
  IN IF bit_value
       THEN Truncate(BitOr(current, update_mask), w)
       ELSE Truncate(BitAnd(current, update_mask), w)

SetBit(w, current, bit_position, bit_value) ==
  LET one == {0}
      update_mask == Truncate(ShiftLeft(one, bit_position, w), w)
  IN IF bit_value
       THEN Truncate(BitOr(current, update_mask), w)
       ELSE LET inverted == Truncate(BitNot(update_mask, w), w)
            IN Truncate(BitAnd(current, inverted), w)

GetBit(w, current, bit_position) ==
  LET mask == Truncate(SetBit(w, {}, bit_position, TRUE), Uint32Width)
  IN BitAnd(mask, current) # {}

(***************************************************************************)
(* Container Utilities.  A std::vector is a sequence; a std::map is a      *)
(* function whose domain is its key set, iterated in ascending key order   *)
(* (std::less).                                                            *)
(***************************************************************************)
EmptyMap == [k \in {} |-> 0]
MapAssign(map, key, value) ==
  [k \in (DOMAIN map) \cup {key} |-> IF k = key THEN value ELSE map[k]]
MapInsert(map, key, value) ==
  IF key \in DOMAIN map THEN map ELSE MapAssign(map, key, value)
MapBegin(keys) == CHOOSE k \in keys : \A j \in keys : k <= j

RECURSIVE BuildItemsMap(_, _, _)
BuildItemsMap(set, idx, items_map) ==
  IF idx > Len(set)
    THEN items_map
    ELSE BuildItemsMap(set, idx + 1, MapAssign(items_map, set[idx], 1))

RECURSIVE FindAll(_, _, _)
FindAll(items_map, candidate_subset, idx) ==
  IF idx > Len(candidate_subset)
    THEN TRUE
    ELSE IF candidate_subset[idx] \notin DOMAIN items_map
           THEN FALSE
           ELSE FindAll(items_map, candidate_subset, idx + 1)

IsSubsetFirstOnly(set, candidate_subset) ==
  LET items_map == BuildItemsMap(set, 1, EmptyMap)
  IN Len(candidate_subset) = 0 \/ candidate_subset[1] \in DOMAIN items_map

IsSubset(set, candidate_subset) ==
  LET items_map == BuildItemsMap(set, 1, EmptyMap)
  IN FindAll(items_map, candidate_subset, 1)

SetsEqual(set1, set2) ==
  IF IsSubset(set1, set2) /\ IsSubset(set2, set1) THEN TRUE ELSE FALSE

RECURSIVE IteratePairs(_, _)
IteratePairs(map, itr) ==
  IF itr = {}
    THEN <<>>
    ELSE LET k == MapBegin(itr)
         IN <<(<<k, map[k]>>)>> \o IteratePairs(map, itr \ {k})

GetKeysAndValuesDropLast(map) ==
  LET all == IteratePairs(map, DOMAIN map)
  IN IF Len(all) = 0 THEN all ELSE SubSeq(all, 1, Len(all) - 1)

GetKeysAndValues(map) == IteratePairs(map, DOMAIN map)

RECURSIVE InsertPairs(_, _, _)
InsertPairs(keys_and_values, idx, map) ==
  IF idx > Len(keys_and_values)
    THEN map
    ELSE InsertPairs(keys_and_values, idx + 1,
                     MapAssign(map, keys_and_values[idx][1],
                               keys_and_values[idx][2]))

RECURSIVE InsertPairsFirstWins(_, _, _)
InsertPairsFirstWins(keys_and_values, idx, map) ==
  IF idx > Len(keys_and_values)
    THEN map
    ELSE InsertPairsFirstWins(keys_and_values, idx + 1,
                              MapInsert(map, keys_and_values[idx][1],
                                        keys_and_values[idx][2]))

MakeFromKeysAndValuesPairsFirstWins(keys_and_values) ==
  InsertPairsFirstWins(keys_and_values, 1, EmptyMap)

MakeFromKeysAndValuesPairs(keys_and_values) ==
  InsertPairs(keys_and_values, 1, EmptyMap)

(***************************************************************************)
(* MakeFromKeysAndValues(keys, values).  The length check is an assert:    *)
(* it aborts the process in a build without NDEBUG and is compiled out in  *)
(* a build with NDEBUG.  With the check compiled out, values[idx] with     *)
(* idx >= values.size() is an out-of-bounds read (undefined behaviour):    *)
(* the call crashes or reads an arbitrary value.  The operator returns the *)
(* set of outcomes the call can have.                                      *)
(***************************************************************************)
RECURSIVE ZipInsert(_, _, _, _)
ZipInsert(keys, values, idx, map) ==
  IF idx > Len(keys)
    THEN {Value(map)}
    ELSE IF idx <= Len(values)
           THEN ZipInsert(keys, values, idx + 1,
                          MapAssign(map, keys[idx], values[idx]))
           ELSE {Crash} \cup
                UNION {ZipInsert(keys, values, idx + 1,
                                 MapAssign(map, keys[idx], garbage))
                         : garbage \in MapVals}

MakeFromKeysAndValues(keys, values, ndebug) ==
  IF ~ndebug /\ Len(keys) # Len(values)
    THEN {Abort("keys.size() == values.size()")}
    ELSE ZipInsert(keys, values, 1, EmptyMap)

(***************************************************************************)
(* Arguments of a call.                                                    *)
(***************************************************************************)
BitSamples(w) == SUBSET {0, (w \div 2) - 1, w \div 2, w - 1}
Maps == UNION {[d -> MapVals] : d \in SUBSET Keys}

ClampInputs ==
  [op : {"ClampValue", "ClampValueAndWarn"},
   val : ClampVals, min : ClampVals, max : ClampVals]
CheckAlignmentInputs ==
  [op : {"CheckAlignment"}, item_ptr_val : Addrs,
   desired_alignment : Aligns, verbose : BOOLEAN]
RequireAlignmentInputs ==
  [op : {"RequireAlignment"}, item_ptr_val : Addrs,
   desired_alignment : Aligns]
SetBitInputs ==
  UNION {[op : {"SetBit"}, w : {w}, current : BitSamples(w),
          bit_position : Bits(w), bit_value : BOOLEAN] : w \in Widths}
GetBitInputs ==
  UNION {[op : {"GetBit"}, w : {w}, current : BitSamples(w),
          bit_position : Bits(w)] : w \in Widths}
SetInputs ==
  [op : {"IsSubset", "SetsEqual"},
   set1 : SeqsUpTo(Elems, MaxLen), set2 : SeqsUpTo(Elems, MaxLen)]
MapInputs == [op : {"GetKeysAndValues"}, map : Maps]
PairsInputs ==
  [op : {"MakeFromKeysAndValuesPairs"},
   keys_and_values : SeqsUpTo(Keys \X MapVals, MaxLen)]
KeysValuesInputs ==
  [op : {"MakeFromKeysAndValues"},
   keys : SeqsUpTo(Keys, MaxLen), values : SeqsUpTo(MapVals, MaxLen)]

Init ==
  /\ pc = "call"
  /\ ret = NoRet
  /\ cout = <<>>
  /\ cerr = <<>>
  /\ NDEBUG \in BOOLEAN
  /\ \/ args \in ClampInputs
     \/ args \in CheckAlignmentInputs
     \/ args \in RequireAlignmentInputs
     \/ args \in SetBitInputs
     \/ args \in GetBitInputs
     \/ args \in SetInputs
     \/ args \in MapInputs
     \/ args \in PairsInputs
     \/ args \in KeysValuesInputs

(***************************************************************************)
(* One action per function: the call runs to completion.                   *)
(***************************************************************************)
ClampValueCall ==
  /\ pc = "call" /\ args.op = "ClampValue"
  /\ ret' = ClampValue(args.val, args.min, args.max)
  /\ pc' = "done"
  /\ UNCHANGED <<args, cout, cerr, NDEBUG>>

ClampValueAndWarnCall ==
  /\ pc = "call" /\ args.op = "ClampValueAndWarn"
  /\ LET r == ClampValueAndWarn(args.val, args.min, args.max)
     IN /\ ret' = r.ret
        /\ cerr' = cerr \o r.cerr
  /\ pc' = "done"
  /\ UNCHANGED <<args, cout, NDEBUG>>

CheckAlignmentCall ==
  /\ pc = "call" /\ args.op = "CheckAlignment"
  /\ \E r \in IF args.desired_alignment = 0
                THEN CheckAlignmentUndefined
                ELSE {CheckAlignment(args.item_ptr_val,
                                     args.desired_alignment, args.verbose)} :
       /\ ret' = r.ret
       /\ cout' = cout \o r.cout
  /\ pc' = "done"
  /\ UNCHANGED <<args, cerr, NDEBUG>>

RequireAlignmentCall ==
  /\ pc = "call" /\ args.op = "RequireAlignment"
  /\ ret' \in IF args.desired_alignment = 0
                THEN RequireAlignmentUndefined
                ELSE {RequireAlignment(args.item_ptr_val,
                                       args.desired_alignment)}
  /\ pc' = "done"
  /\ UNCHANGED <<args, cout, cerr, NDEBUG>>

SetBitCall ==
  /\ pc = "call" /\ args.op = "SetBit"
  /\ ret' = Value(SetBit(args.w, args.current, args.bit_position,
                         args.bit_value))
  /\ pc' = "done"
  /\ UNCHANGED <<args, cout, cerr, NDEBUG>>

GetBitCall ==
  /\ pc = "call" /\ args.op = "GetBit"
  /\ ret' = Value(GetBit(args.w, args.current, args.bit_position))
  /\ pc' = "done"
  /\ UNCHANGED <<args, cout, cerr, NDEBUG>>

IsSubsetCall ==
  /\ pc = "call" /\ args.op = "IsSubset"
  /\ ret' = Value(IsSubset(args.set1, args.set2))
  /\ pc' = "done"
  /\ UNCHANGED <<args, cout, cerr, NDEBUG>>

SetsEqualCall ==
  /\ pc = "call" /\ args.op = "SetsEqual"
  /\ ret' = Value(SetsEqual(args.set1, args.set2))
  /\ pc' = "done"
  /\ UNCHANGED <<args, cout, cerr, NDEBUG>>

GetKeysAndValuesCall ==
  /\ pc = "call" /\ args.op = "GetKeysAndValues"
  /\ ret' = Value(GetKeysAndValues(args.map))
  /\ pc' = "done"
  /\ UNCHANGED <<args, cout, cerr, NDEBUG>>

MakeFromKeysAndValuesPairsCall ==
  /\ pc = "call" /\ args.op = "MakeFromKeysAndValuesPairs"
  /\ ret' = Value(MakeFromKeysAndValuesPairs(args.keys_and_values))
  /\ pc' = "done"
  /\ UNCHANGED <<args, cout, cerr, NDEBUG>>

MakeFromKeysAndValuesCall ==
  /\ pc = "call" /\ args.op = "MakeFromKeysAndValues"
  /\ ret' \in MakeFromKeysAndValues(args.keys, args.values, NDEBUG)
  /\ pc' = "done"
  /\ UNCHANGED <<args, cout, cerr, NDEBUG>>

Next ==
  \/ ClampValueCall
  \/ ClampValueAndWarnCall
  \/ CheckAlignmentCall
  \/ RequireAlignmentCall
  \/ SetBitCall
  \/ GetBitCall
  \/ IsSubsetCall
  \/ SetsEqualCall
  \/ GetKeysAndValuesCall
  \/ MakeFromKeysAndValuesPairsCall
  \/ MakeFromKeysAndValuesCall

Spec == Init /\ [][Next]_vars

Done(op) == pc = "done" /\ args.op = op

Range(seq) == {seq[i] : i \in 1..Len(seq)}
LastIndex(seq, key) ==
  CHOOSE i \in 1..Len(seq) :
    /\ seq[i][1] = key
    /\ \A j \in (i + 1)..Len(seq) : seq[j][1] # key
Zip(keys, values) == [i \in 1..Len(keys) |-> <<keys[i], values[i]>>]
LastWriteWins(map, pairs) ==
  /\ DOMAIN map = {pairs[i][1] : i \in 1..Len(pairs)}
  /\ \A k \in DOMAIN map : map[k] = pairs[LastIndex(pairs, k)][2]

(***************************************************************************)
(* C1: for every width, value and bit_position < width, GetBit of the      *)
(* result of SetBit(x, pos, b) at pos is b.                                *)
(***************************************************************************)
C1_GetBitReadsBackSetBit ==
  Done("SetBit") =>
    GetBit(args.w, ret.val, args.bit_position) = args.bit_value

(***************************************************************************)
(* C2: SetBit returns a value of the same width whose bit at bit_position  *)
(* is bit_value and whose other bits are those of current.                 *)
(***************************************************************************)
C2_SetBitFrame ==
  Done("SetBit") =>
    /\ ret.kind = "value"
    /\ ret.val \subseteq Bits(args.w)
    /\ \A b \in Bits(args.w) :
         (b \in ret.val) = IF b = args.bit_position
                             THEN args.bit_value
                             ELSE b \in args.current

C2_Witness ==
  /\ Done("SetBit")
  /\ args.w = 64
  /\ args.bit_position = 63
  /\ ~args.bit_value
  /\ args.current = {0, 31, 32, 63}
  /\ ret.val = {0, 31, 32}

(***************************************************************************)
(* C3: with min <= max, ClampValue returns r in [min, max]: val when val   *)
(* is in range, min when val < min, max when val > max.                    *)
(***************************************************************************)
C3_ClampValueInRange ==
  (Done("ClampValue") /\ args.min <= args.max) =>
    /\ ret.kind = "value"
    /\ args.min <= ret.val /\ ret.val <= args.max
    /\ (args.min <= args.val /\ args.val <= args.max) => ret.val = args.val
    /\ args.val < args.min => ret.val = args.min
    /\ args.val > args.max => ret.val = args.max

C3_Witness ==
  /\ Done("ClampValue")
  /\ args.min < args.max
  /\ args.val > args.max
  /\ ret = Value(args.max)

(***************************************************************************)
(* C4: with min <= max, ClampValueAndWarn returns what ClampValue returns  *)
(* and writes one diagnostic to the error stream when val is out of range, *)
(* none when it is in range.                                               *)
(***************************************************************************)
C4_WarnEqualsClamp ==
  (Done("ClampValueAndWarn") /\ args.min <= args.max) =>
    /\ ret = ClampValue(args.val, args.min, args.max)
    /\ Len(cerr) = IF args.val < args.min \/ args.val > args.max
                     THEN 1 ELSE 0
    /\ cout = <<>>

C4_Witness ==
  /\ Done("ClampValueAndWarn")
  /\ args.min < args.max
  /\ args.val > args.max
  /\ ret = Value(args.max)
  /\ cerr = <<ClampMsg(args.val, " to max ", args.max)>>

(***************************************************************************)
(* C5: with min > max, ClampValue and ClampValueAndWarn raise              *)
(* std::invalid_argument, return no value and write no diagnostic.         *)
(***************************************************************************)
C5_BadBoundsThrow ==
  ((Done("ClampValue") \/ Done("ClampValueAndWarn"))
      /\ args.min > args.max) =>
    /\ ret = Throw("std::invalid_argument", "min > max")
    /\ cerr = <<>>
    /\ cout = <<>>

C5_Witness ==
  /\ Done("ClampValueAndWarn")
  /\ args.min > args.max
  /\ args.val < args.max
  /\ ret.kind = "throw"

(***************************************************************************)
(* C6: MakeFromKeysAndValues(keys, values) with sequences of different     *)
(* lengths fails in every build and returns no map.                        *)
(***************************************************************************)
C6_LengthMismatchFails ==
  (Done("MakeFromKeysAndValues") /\ Len(args.keys) # Len(args.values)) =>
    ret.kind \in {"throw", "abort"}

(***************************************************************************)
(* C7: GetKeysAndValues lists each entry of the map once, in ascending key *)
(* order, and MakeFromKeysAndValues of that list is the map again.         *)
(***************************************************************************)
C7_RoundTrip ==
  Done("GetKeysAndValues") =>
    /\ ret.kind = "value"
    /\ Len(ret.val) = Cardinality(DOMAIN args.map)
    /\ \A i \in 1..Len(ret.val) :
         /\ ret.val[i][1] \in DOMAIN args.map
         /\ ret.val[i][2] = args.map[ret.val[i][1]]
    /\ \A i, j \in 1..Len(ret.val) : i < j => ret.val[i][1] < ret.val[j][1]
    /\ MakeFromKeysAndValuesPairs(ret.val) = args.map

C7_Witness ==
  /\ Done("GetKeysAndValues")
  /\ DOMAIN args.map = {1, 3}
  /\ ret.val = <<(<<1, args.map[1]>>), (<<3, args.map[3]>>)>>
  /\ args.map[1] # args.map[3]

(***************************************************************************)
(* C8: the map built from a sequence of pairs has the distinct keys of the *)
(* input as key set and maps each key to the value of its last occurrence; *)
(* the keys/values overload builds the same map from the same positional   *)
(* data.                                                                   *)
(***************************************************************************)
C8_LastWriteWins ==
  /\ Done("MakeFromKeysAndValuesPairs") =>
       /\ ret.kind = "value"
       /\ LastWriteWins(ret.val, args.keys_and_values)
  /\ (Done("MakeFromKeysAndValues") /\ Len(args.keys) = Len(args.values)) =>
       /\ ret.kind = "value"
       /\ LastWriteWins(ret.val, Zip(args.keys, args.values))
       /\ ret.val = MakeFromKeysAndValuesPairs(Zip(args.keys, args.values))

C8_Witness ==
  /\ Done("MakeFromKeysAndValuesPairs")
  /\ args.keys_and_values = <<(<<2, 1>>), (<<1, 1>>), (<<2, 2>>)>>
  /\ ret.val = [k \in {1, 2} |-> k]

(***************************************************************************)
(* C9: IsSubset is true iff every element of the candidate occurs in the   *)
(* set; SetsEqual is true iff both sequences have the same distinct        *)
(* elements, and is symmetric.                                             *)
(***************************************************************************)
C9_SubsetAndEqual ==
  /\ Done("IsSubset") =>
       /\ ret.val = (\A i \in 1..Len(args.set2) :
                       \E j \in 1..Len(args.set1) :
                         args.set1[j] = args.set2[i])
       /\ IsSubset(args.set1, <<>>)
       /\ IsSubset(args.set1, args.set1)
  /\ Done("SetsEqual") =>
       /\ ret.val = (Range(args.set1) = Range(args.set2))
       /\ ret.val = SetsEqual(args.set2, args.set1)

C9_Witness ==
  /\ Done("IsSubset")
  /\ args.set1 = <<1, 2>>
  /\ args.set2 = <<2, 2, 1>>
  /\ ret.val = TRUE

(***************************************************************************)
(* C10: with desired_alignment > 0, CheckAlignment returns true iff the    *)
(* address is a multiple of the alignment, whatever verbose is, and writes *)
(* one line to standard output iff verbose; RequireAlignment raises        *)
(* exactly when CheckAlignment returns false, and writes nothing.          *)
(***************************************************************************)
C10_Alignment ==
  /\ (Done("CheckAlignment") /\ args.desired_alignment > 0) =>
       /\ ret = Value((args.item_ptr_val % args.desired_alignment) = 0)
       /\ ret = CheckAlignment(args.item_ptr_val, args.desired_alignment,
                               ~args.verbose).ret
       /\ Len(cout) = IF args.verbose THEN 1 ELSE 0
       /\ cerr = <<>>
  /\ (Done("RequireAlignment") /\ args.desired_alignment > 0) =>
       /\ (ret.kind = "throw") =
            ~CheckAlignment(args.item_ptr_val, args.desired_alignment,
                            FALSE).ret.val
       /\ ret.kind = "throw" => ret.type = "std::runtime_error"
       /\ ret.kind # "throw" => ret = Void
       /\ cout = <<>>
       /\ cerr = <<>>

C10_Witness ==
  /\ Done("CheckAlignment")
  /\ args.verbose
  /\ args.desired_alignment = 4
  /\ args.item_ptr_val = 6
  /\ ret = Value(FALSE)
  /\ Len(cout) = 1

====
